---- MODULE Spec2Model ----
(***************************************************************************)
(* A model of the declarative state-machine engine of                      *)
(* src/state_machine.py: the State value type, the per-definition state    *)
(* table (`states`), the transition algorithm and the handler registry.    *)
(*                                                                         *)
(* Python values are modelled as strings: state codes are "0", "1", ...,   *)
(* Python's None is "None", the wildcard StateMachine.ANY is "ANY",        *)
(* booleans are "True" / "False".                                          *)
(***************************************************************************)
EXTENDS Integers, Sequences, FiniteSets, TLC

\* ------------------------------------------------------------------ bounds
MaxCode == 2        \* state codes are "0" .. ToString(MaxCode)
MaxInstances == 1   \* machine instances alive at the same time
MaxRegs == 2        \* (rule, handler) pairs registered in one run
MaxThreads == 2     \* threads that access `states` of one definition at once

\* ------------------------------------------------------------- value types
None == "None"
ANY == "ANY"
Codes == {ToString(n) : n \in 0..MaxCode}

\* State.__init__: a state record; `code` is its identity
State(code, label, is_initial, is_terminal) ==
    [code |-> code, label |-> label,
     is_initial |-> is_initial, is_terminal |-> is_terminal]

\* a state as written in a transitions mapping: a State literal (lit) or a
\* bare code, which `states` wraps into State(code)
Lit(s) == [lit |-> TRUE, s |-> s]
Bare(code) == [lit |-> FALSE, s |-> State(code, None, None, None)]

\* State.__eq__ / __hash__: equality is by code alone
StateEq(a, b) == a.code = b.code

Attrs == <<"label", "is_initial", "is_terminal">>

RECURSIVE MergeAttrs(_, _, _)
MergeAttrs(self, other, i) ==
    IF i > Len(Attrs) THEN [s |-> self, err |-> "none"]
    ELSE LET attr == Attrs[i] IN
         IF self[attr] # other[attr] /\ other[attr] # None
         THEN IF self[attr] = None
              THEN MergeAttrs([self EXCEPT ![attr] = other[attr]], other, i + 1)
              ELSE [s |-> self, err |-> "ImproperlyConfigured"]
         ELSE MergeAttrs(self, other, i + 1)

\* a plausible slip: the merge lets the later declaration win silently
merge_data_LastWins(self, other) ==
    [s |-> [a \in DOMAIN self |->
              IF other[a] # None THEN other[a] ELSE self[a]],
     err |-> "none"]

\* State.merge_data: self is mutated in place, attribute by attribute
merge_data(self, other) ==
    IF ~StateEq(self, other) THEN [s |-> self, err |-> "ValueError"]
    ELSE MergeAttrs(self, other, 1)

\* ------------------------------------------------- the transitions mapping
\* A transitions dict is a sequence (dicts keep insertion order) of entries
\*   [key |-> declaration, trans |-> <<[symbol |-> y, dest |-> declaration]>>]
\* with keys pairwise different by code and symbols different per entry.

RECURSIVE RightSide(_, _)
RightSide(t, i) ==
    IF i > Len(t) THEN <<>>
    ELSE [j \in 1..Len(t[i].trans) |-> t[i].trans[j].dest] \o RightSide(t, i + 1)

Keys(t) == [i \in 1..Len(t) |-> t[i].key]

\* line 171: states = right_side + list(cls.transitions.keys())
StatesList(t) == RightSide(t, 1) \o Keys(t)

KeyCodes(t) == {t[i].key.s.code : i \in 1..Len(t)}
RightCodes(t) == {StatesList(t)[i].s.code : i \in 1..Len(RightSide(t, 1))}

\* position of code in a table (a sequence of states), 0 when absent
Index(tbl, code) ==
    IF \E k \in 1..Len(tbl) : tbl[k].code = code
    THEN CHOOSE k \in 1..Len(tbl) : tbl[k].code = code
    ELSE 0

TableCodes(tbl) == {tbl[k].code : k \in 1..Len(tbl)}

RECURSIVE MergeStates(_, _, _)
MergeStates(states, i, tbl) ==
    IF i > Len(states) THEN [tbl |-> tbl, err |-> "none"]
    ELSE LET state == states[i].s
             k == Index(tbl, state.code)
         IN IF k = 0
            THEN MergeStates(states, i + 1, Append(tbl, state))
            ELSE LET m == merge_data(tbl[k], state)
                 IN IF m.err # "none"
                    THEN [tbl |-> [tbl EXCEPT ![k] = m.s], err |-> m.err]
                    ELSE MergeStates(states, i + 1, [tbl EXCEPT ![k] = m.s])

\* a plausible slip: both deductions computed from the wrong side
deduce_initial_states_Swapped(t) == RightCodes(t) \ KeyCodes(t)

deduce_initial_states(t) == KeyCodes(t) \ RightCodes(t)

deduce_terminal_states(t) == RightCodes(t) \ KeyCodes(t)

\* lines 194-197: flag the resolved initial and terminal states
Mark(tbl, initials, terminals) ==
    [k \in 1..Len(tbl) |->
        [tbl[k] EXCEPT
           !.is_initial = IF tbl[k].code \in initials THEN "True" ELSE @,
           !.is_terminal = IF tbl[k].code \in terminals THEN "True" ELSE @]]

\* a plausible slip: the deduced states are flagged next to the marked ones
Resolve_DeduceAlways(t, m) ==
    LET explicitI == {c \in TableCodes(m.tbl) : m.tbl[Index(m.tbl, c)].is_initial = "True"}
        explicitT == {c \in TableCodes(m.tbl) : m.tbl[Index(m.tbl, c)].is_terminal = "True"}
        initials == IF explicitI = {} THEN deduce_initial_states(t) ELSE explicitI
        terminals == explicitT \cup deduce_terminal_states(t)
    IN IF m.err # "none"
       THEN [tbl |-> m.tbl, err |-> m.err, merged |-> m.tbl]
       ELSE IF Cardinality(initials) # 1
       THEN [tbl |-> m.tbl, err |-> "ImproperlyConfigured", merged |-> m.tbl]
       ELSE [tbl |-> Mark(m.tbl, initials, terminals), err |-> "none", merged |-> m.tbl]

\* lines 183-197: resolve and flag the initial and terminal states of the
\* table m the merge loop produced
Resolve(t, m) ==
    LET explicitI == {c \in TableCodes(m.tbl) : m.tbl[Index(m.tbl, c)].is_initial = "True"}
        explicitT == {c \in TableCodes(m.tbl) : m.tbl[Index(m.tbl, c)].is_terminal = "True"}
        initials == IF explicitI = {} THEN deduce_initial_states(t) ELSE explicitI
        terminals == IF explicitT = {} THEN deduce_terminal_states(t) ELSE explicitT
    IN IF m.err # "none"
       THEN [tbl |-> m.tbl, err |-> m.err, merged |-> m.tbl]
       ELSE IF Cardinality(initials) # 1
       THEN [tbl |-> m.tbl, err |-> "ImproperlyConfigured", merged |-> m.tbl]
       ELSE [tbl |-> Mark(m.tbl, initials, terminals), err |-> "none", merged |-> m.tbl]

\* lines 166-197: what a build leaves in cls._states and how it ends;
\* `merged` is cls._states when the merge loop is left
BuildStates(t) == Resolve(t, MergeStates(StatesList(t), 1, <<>>))

\* The State literals of the mapping are the objects the table holds: the
\* first declaration of a code in StatesList, when it is a literal, is the
\* table's object and carries whatever the build wrote into it.
FirstPos(states, code) == CHOOSE p \in 1..Len(states) :
    /\ states[p].s.code = code
    /\ \A q \in 1..(p - 1) : states[q].s.code # code

Aliased(t, p, tbl) ==
    LET d == StatesList(t)[p]
    IN IF d.lit /\ FirstPos(StatesList(t), d.s.code) = p /\ d.s.code \in TableCodes(tbl)
       THEN Lit(tbl[Index(tbl, d.s.code)])
       ELSE d

RECURSIVE Offset(_, _)
Offset(t, i) == IF i <= 1 THEN 0 ELSE Len(t[i - 1].trans) + Offset(t, i - 1)

WriteBack(t, tbl) ==
    [i \in 1..Len(t) |->
        [key |-> Aliased(t, Len(RightSide(t, 1)) + i, tbl),
         trans |-> [j \in 1..Len(t[i].trans) |->
                      [symbol |-> t[i].trans[j].symbol,
                       dest |-> Aliased(t, Offset(t, i) + j, tbl)]]]]

\* --------------------------------------------------- machine definitions
\* StateMachine is the engine's base class; P and D2 subclass it directly
\* (D2 is unrelated to P); S subclasses P.
Defs == {"StateMachine", "P", "S", "D2"}

MRO(d) ==
    CASE d = "StateMachine" -> <<"StateMachine">>
      [] d = "P" -> <<"P", "StateMachine">>
      [] d = "S" -> <<"S", "P", "StateMachine">>
      [] d = "D2" -> <<"D2", "StateMachine">>

Insts == 1..MaxInstances
Symbols == {"success", "fail", None}
Handlers == {"h1", "h2"}

VARIABLES
    declared,       \* per definition: [own, t], `transitions` as the class body spells it
    transitions,    \* per definition: [own, t], the class attribute `transitions`
    _states,        \* per definition: the class attribute `_states`
    handlers,       \* per definition: [own, rules], the class attribute `handlers`
    instances,      \* per instance: [alive, cls, current_state_code]
    call,           \* the last call made: [op, def, inst, symbol, from, guard, built]
    outcome,        \* how it ended: "ok" or the name of the exception raised
    ret,            \* the states it returned (a table, or a list of states)
    results,        \* the (handler, outcome) list the last dispatch built
    saved,          \* whether the last call invoked the commit hook save()
    events,         \* what the last call did to its instance, in order
    late,           \* per instance: the registrations made since it was created
    threads,        \* per thread inside `states`: [pc, states, i, todo, computed, outcome, ret]
    merged          \* cls._states as the last build's merge loop left it

vars == <<declared, transitions, _states, handlers, instances, call, outcome,
          ret, results, saved, events, late, threads, merged>>

\* values of the class attribute `_states`
Absent == [kind |-> "absent", tbl |-> <<>>]     \* not in cls.__dict__
NoneStates == [kind |-> "None", tbl |-> <<>>]   \* StateMachine._states = None
Dict(tbl) == [kind |-> "dict", tbl |-> tbl]

\* Python attribute lookup along the MRO: the first class that has it
FirstOwner(mro, has) ==
    mro[CHOOSE i \in 1..Len(mro) :
            has[mro[i]] /\ \A j \in 1..(i - 1) : ~has[mro[j]]]

StatesOwner(d) == FirstOwner(MRO(d), [c \in Defs |-> _states[c].kind # "absent"])
TransitionsOwner(d) == FirstOwner(MRO(d), [c \in Defs |-> transitions[c].own])
HandlersOwner(d) == FirstOwner(MRO(d), [c \in Defs |-> handlers[c].own])

\* line 172 onwards: the build works in cls._states itself, so whatever it
\* has put there when it raises stays there
CacheAfterBuild(b) == Dict(b.tbl)

\* cls._states and the literals of cls.transitions after a build b from
\* the mapping t of class `owner`
Built(d, owner, t, b) ==
    [err |-> b.err, tbl |-> b.tbl, built |-> TRUE, merged |-> b.merged,
     cache |-> [_states EXCEPT ![d] = CacheAfterBuild(b)],
     trans |-> [transitions EXCEPT ![owner].t = WriteBack(t, b.tbl)]]

\* the classproperty `states`: the table returned (or the error raised) and
\* the class attributes after the access
states(d) ==
    IF _states[StatesOwner(d)].tbl # <<>>
    THEN [err |-> "none", tbl |-> _states[StatesOwner(d)].tbl, built |-> FALSE,
          merged |-> merged, cache |-> _states, trans |-> transitions]
    ELSE Built(d, TransitionsOwner(d), transitions[TransitionsOwner(d)].t,
               BuildStates(transitions[TransitionsOwner(d)].t))

ClassCall(op, d) ==
    [op |-> op, def |-> d, inst |-> 0, symbol |-> None, from |-> None,
     guard |-> "not called", to |-> <<>>, built |-> FALSE]
NoCall == ClassCall("none", "StateMachine")

\* what a call that only reads the table leaves behind
TableAccess(op, d, r, value) ==
    /\ _states' = r.cache
    /\ transitions' = r.trans
    /\ merged' = r.merged
    /\ call' = [ClassCall(op, d) EXCEPT !.built = r.built]
    /\ outcome' = IF r.err = "none" THEN "ok" ELSE r.err
    /\ ret' = IF r.err = "none" THEN value ELSE <<>>
    /\ results' = <<>>
    /\ saved' = FALSE
    /\ events' = <<>>
    /\ UNCHANGED <<declared, handlers, instances, late, threads>>

\* cls.states
AccessStates(d) == \E r \in {states(d)} : TableAccess("states", d, r, r.tbl)

\* the states of a table that satisfy a flag, in table order
Flagged(tbl, attr) == SelectSeq(tbl, LAMBDA s : s[attr] = "True")

\* cls.get_initial_state(): the first state flagged initial, or None (<<>>)
InitialOf(tbl) ==
    IF Flagged(tbl, "is_initial") = <<>> THEN <<>>
    ELSE <<Head(Flagged(tbl, "is_initial"))>>

get_initial_state(d) ==
    \E r \in {states(d)} : TableAccess("get_initial_state", d, r, InitialOf(r.tbl))

\* cls.get_terminals()
get_terminals(d) ==
    \E r \in {states(d)} :
        TableAccess("get_terminals", d, r, Flagged(r.tbl, "is_terminal"))

\* ------------------------------------------------------ transition engine
\* the current_state getter: states[current_state_code], None (<<>>) on KeyError
current_state(tbl, code) ==
    IF code \in TableCodes(tbl) THEN <<tbl[Index(tbl, code)]>> ELSE <<>>

\* the transitions a mapping lists under a state, <<>> when it is no key
Under(t, cur) ==
    IF cur # <<>> /\ \E i \in 1..Len(t) : StateEq(t[i].key.s, cur[1])
    THEN t[CHOOSE i \in 1..Len(t) : StateEq(t[i].key.s, cur[1])].trans
    ELSE <<>>

\* a plausible slip: the symbol is ignored and the first transition taken
get_next_AnySymbol(t, cur, symbol) ==
    IF Under(t, cur) = <<>> THEN <<>> ELSE <<Under(t, cur)[1].dest>>

\* get_next: transitions[current_state][symbol] as the mapping spells it,
\* <<>> when the lookup raises KeyError
get_next(t, cur, symbol) ==
    LET tr == Under(t, cur)
    IN IF \E j \in 1..Len(tr) : tr[j].symbol = symbol
       THEN <<tr[CHOOSE j \in 1..Len(tr) : tr[j].symbol = symbol].dest>>
       ELSE <<>>

\* the current_state setter: states[state].code, <<>> when it raises KeyError
SetCurrentState(tbl, state) ==
    IF state.code \in TableCodes(tbl) THEN <<tbl[Index(tbl, state.code)].code>> ELSE <<>>

\* Definitions that override the guard hook allow_transition, and
\* definitions whose super() has a save() that can fail (a model class).
GuardOverridden == {"D2"}
Persisted == {"D2"}

\* a plausible slip: the guard's answer is not looked at
Vetoed_Ignored(allowed) == FALSE

\* line 126: `if not self.allow_transition(...)`
Vetoed(allowed) == ~allowed

\* allow_transition: the answers the hook can give (the default: True)
allow_transition(d) == IF d \in GuardOverridden THEN BOOLEAN ELSE {TRUE}

\* save: how the commit hook can end (the default does nothing)
save(d) == IF d \in Persisted THEN {"ok", "Exception"} ELSE {"ok"}

\* ------------------------------------------------------ handler registry
\* A registry is a sequence (a dict in insertion order) of
\*   [rule |-> <<from_state, symbol, to_state>>, hs |-> set of handlers]
Raises(h) == h = "h2"

\* a plausible slip: None in a rule is taken for "no condition"
Matches_NoneIsWildcard(rule, args) ==
    \A k \in 1..3 : rule[k] = args[k] \/ rule[k] = ANY \/ rule[k] = None

\* lines 274-276: every condition equals its argument or is ANY
Matches(rule, args) ==
    \A k \in 1..3 : rule[k] = args[k] \/ rule[k] = ANY

\* a plausible slip: only the class's own registry is consulted
get_handlers_OwnOnly(d) == handlers[d].rules

\* get_handlers: super() has no get_handlers, so the result is a copy of
\* cls.handlers, the registry of the first class of the MRO that has one
get_handlers(d) == handlers[HandlersOwner(d)].rules

\* the orders in which a set can be iterated
RECURSIVE Orders(_)
Orders(S) ==
    IF S = {} THEN {<<>>}
    ELSE UNION {{<<h>> \o o : o \in Orders(S \ {h})} : h \in S}

\* a plausible slip: the exception a handler raised is not kept
Invoke_Unrecorded(h) == [handler |-> h, outcome |-> "returned"]

\* lines 279-287: the handler's return value, or the exception it raised,
\* is appended with the handler
Invoke(h) == [handler |-> h, outcome |-> IF Raises(h) THEN "raised" ELSE "returned"]

\* call_handlers: the result lists a dispatch can build
RECURSIVE call_handlers(_, _, _)
call_handlers(rules, i, args) ==
    IF i > Len(rules) THEN {<<>>}
    ELSE IF Matches(rules[i].rule, args)
    THEN {[k \in 1..Len(o) |-> Invoke(o[k])] \o rest :
            o \in Orders(rules[i].hs), rest \in call_handlers(rules, i + 1, args)}
    ELSE call_handlers(rules, i + 1, args)

\* cls.handlers[rule].add(fun) on a defaultdict(set)
AddHandler(rules, rule, h) ==
    IF \E k \in 1..Len(rules) : rules[k].rule = rule
    THEN [k \in 1..Len(rules) |->
            IF rules[k].rule = rule
            THEN [rule |-> rule, hs |-> rules[k].hs \cup {h}] ELSE rules[k]]
    ELSE Append(rules, [rule |-> rule, hs |-> {h}])

\* a plausible slip: the handler goes into whatever registry the class sees
Registered_Shared(d, rule, h) ==
    [handlers EXCEPT ![HandlersOwner(d)].rules = AddHandler(@, rule, h)]

\* lines 298-302: the class gets a registry of its own before the handler
\* is added to it
Registered(d, rule, h) ==
    [handlers EXCEPT ![d] = [own |-> TRUE, rules |-> AddHandler(@.rules, rule, h)]]

\* the rules registrations are drawn from: one exact matcher per position
Rules == {<<"0", ANY, ANY>>, <<ANY, None, ANY>>, <<ANY, ANY, "2">>}

\* the (rule, handler) pairs registered on any definition
RECURSIVE Pairs(_, _)
Pairs(rules, i) ==
    IF i > Len(rules) THEN 0 ELSE Cardinality(rules[i].hs) + Pairs(rules, i + 1)

Registrations == Pairs(handlers["P"].rules, 1) + Pairs(handlers["S"].rules, 1)
                 + Pairs(handlers["D2"].rules, 1)

\* cls.handle(from_state, symbol, to_state)(fun)
handle(d, rule, h) ==
    /\ Registrations < MaxRegs
    /\ handlers' = Registered(d, rule, h)
    /\ call' = ClassCall("handle", d)
    /\ outcome' = "ok"
    /\ ret' = <<>>
    /\ results' = <<>>
    /\ saved' = FALSE
    /\ events' = <<>>
    /\ late' = [i \in Insts |->
                  IF instances[i].alive THEN late[i] \cup {<<d, rule, h>>} ELSE late[i]]
    /\ UNCHANGED <<declared, transitions, _states, instances, merged, threads>>

\* ------------------------------------------------------------- instances
\* What a call does to its instance, each step with the current_state_code
\* the instance has while it happens: the assignment of the setter, the
\* commit hook save() and how it ended, the handlers called.
Assigned(code) == [ev |-> "assign", code |-> code, by |-> None]
Committed(code, how) == [ev |-> "save", code |-> code, by |-> how]
Dispatched(code, res) ==
    [k \in 1..Len(res) |-> [ev |-> "handler", code |-> code, by |-> res[k].handler]]

InstanceCall(op, i, d, symbol, from, guard) ==
    [op |-> op, def |-> d, inst |-> i, symbol |-> symbol, from |-> from,
     guard |-> guard, to |-> <<>>, built |-> FALSE]

\* what a call on an instance leaves behind
InstanceEnd(c, r, inst, out, res, ev) ==
    /\ _states' = r.cache
    /\ transitions' = r.trans
    /\ merged' = r.merged
    /\ instances' = [instances EXCEPT ![c.inst] = inst]
    /\ call' = [c EXCEPT !.built = r.built]
    /\ outcome' = out
    /\ ret' = <<>>
    /\ results' = res
    /\ saved' = (\E k \in 1..Len(ev) : ev[k].ev = "save")
    /\ events' = ev
    /\ late' = IF c.op = "new" /\ out = "ok" THEN [late EXCEPT ![c.inst] = {}] ELSE late
    /\ UNCHANGED <<declared, handlers, threads>>

\* __init__ with current_state_code unset:
\* self.current_state = self.get_initial_state()
New(i, d) ==
    \E r \in {states(d)} : \E first \in {InitialOf(r.tbl)} :
    \E c \in {InstanceCall("new", i, d, None, None, "not called")} :
       IF r.err # "none" THEN InstanceEnd(c, r, instances[i], r.err, <<>>, <<>>)
       ELSE IF first = <<>> THEN InstanceEnd(c, r, instances[i], "KeyError", <<>>, <<>>)
       ELSE InstanceEnd(c, r,
                [alive |-> TRUE, cls |-> d,
                 current_state_code |-> SetCurrentState(r.tbl, first[1])[1]],
                "ok", <<>>, <<Assigned(SetCurrentState(r.tbl, first[1])[1])>>)

\* __init__ with current_state_code already set (a stored row, or an
\* attribute assigned by hand): the table is not consulted
Load(i, d, code) ==
    /\ instances' = [instances EXCEPT ![i] =
                        [alive |-> TRUE, cls |-> d, current_state_code |-> code]]
    /\ call' = InstanceCall("load", i, d, None, None, "not called")
    /\ outcome' = "ok"
    /\ ret' = <<>>
    /\ results' = <<>>
    /\ saved' = FALSE
    /\ events' = <<>>
    /\ late' = [late EXCEPT ![i] = {}]
    /\ UNCHANGED <<declared, transitions, _states, handlers, merged, threads>>

\* a plausible slip: a failed commit puts the old state code back
Move_RolledBack(c, r, stay, cur, next_state) ==
    \E new \in {SetCurrentState(r.tbl, next_state.s)} :
       IF new = <<>>
       THEN InstanceEnd(c, r, stay, "KeyError", <<>>, <<>>)
       ELSE \E committed \in save(c.def) :
            \E moved \in {[stay EXCEPT !.current_state_code = new[1]]} :
               IF committed # "ok"
               THEN InstanceEnd(c, r, stay, committed, <<>>,
                                <<Assigned(new[1]), Committed(new[1], committed),
                                  Assigned(stay.current_state_code)>>)
               ELSE \E res \in call_handlers(get_handlers(c.def), 1,
                                   <<cur.code, c.symbol, next_state.s.code>>) :
                    InstanceEnd(c, r, moved, "ok", res,
                                <<Assigned(new[1]), Committed(new[1], "ok")>>
                                \o Dispatched(new[1], res))

\* a plausible slip: the handlers are notified before the commit
Move_DispatchFirst(c, r, stay, cur, next_state) ==
    \E new \in {SetCurrentState(r.tbl, next_state.s)} :
       IF new = <<>>
       THEN InstanceEnd(c, r, stay, "KeyError", <<>>, <<>>)
       ELSE \E moved \in {[stay EXCEPT !.current_state_code = new[1]]} :
            \E res \in call_handlers(get_handlers(c.def), 1,
                                      <<cur.code, c.symbol, next_state.s.code>>) :
            \E committed \in save(c.def) :
               InstanceEnd(c, r, moved, committed,
                           IF committed = "ok" THEN res ELSE <<>>,
                           <<Assigned(new[1])>> \o Dispatched(new[1], res)
                           \o <<Committed(new[1], committed)>>)

\* lines 128-131, once the guard has allowed the move to next_state
Move(c, r, stay, cur, next_state) ==
    \E new \in {SetCurrentState(r.tbl, next_state.s)} :
       IF new = <<>>
       THEN InstanceEnd(c, r, stay, "KeyError", <<>>, <<>>)
       ELSE \E committed \in save(c.def) :
            \E moved \in {[stay EXCEPT !.current_state_code = new[1]]} :
               IF committed # "ok"
               THEN InstanceEnd(c, r, moved, committed, <<>>,
                                <<Assigned(new[1]), Committed(new[1], committed)>>)
               ELSE \E res \in call_handlers(get_handlers(c.def), 1,
                                   <<cur.code, c.symbol, next_state.s.code>>) :
                    InstanceEnd(c, r, moved, "ok", res,
                                <<Assigned(new[1]), Committed(new[1], "ok")>>
                                \o Dispatched(new[1], res))

\* self.transition(symbol)
transition(i, symbol) ==
    /\ instances[i].alive
    /\ \E d \in {instances[i].cls}, code \in {instances[i].current_state_code} :
       \E r \in {states(d)} :
       \E cur \in {current_state(r.tbl, code)} :
       \E next_state \in {get_next(r.trans[TransitionsOwner(d)].t, cur, symbol)} :
       \E c \in {InstanceCall("transition", i, d, symbol, code, "not called")} :
          IF r.err # "none"
          THEN InstanceEnd(c, r, instances[i], r.err, <<>>, <<>>)
          ELSE IF next_state = <<>>
          THEN InstanceEnd(c, r, instances[i], "IllegalTransition", <<>>, <<>>)
          ELSE \E allowed \in allow_transition(d) :
               \E g \in {[c EXCEPT !.guard = IF allowed THEN "True" ELSE "False",
                                     !.to = <<next_state[1]>>]} :
                  IF Vetoed(allowed)
                  THEN InstanceEnd(g, r, instances[i], "IllegalTransition", <<>>, <<>>)
                  ELSE Move(g, r, instances[i], cur[1], next_state[1])

\* ------------------------------------------- `states`, statement by statement
\* The classproperty `states` as threads execute it: nothing in it is
\* locked, so the statements of two threads that access `states` of one
\* definition interleave.  One step is one statement (one half of an
\* `if`, one turn of a loop); the mappings used here spell every state
\* as a bare code, so each turn of the merge loop creates its own State.
Threads == 1..MaxThreads

\* a thread about to evaluate `if not cls._states`
Idle == [pc |-> "test", states |-> <<>>, i |-> 1, todo |-> <<>>,
         computed |-> FALSE, outcome |-> "running", ret |-> <<>>]

\* the dict the attribute cls._states names now (empty for None as well)
Shared(d) == _states[StatesOwner(d)].tbl

\* an item assignment or an attribute assignment inside that dict
Store(d, tbl) == [_states EXCEPT ![StatesOwner(d)].tbl = tbl]

ThreadOnly == <<declared, transitions, handlers, instances, call, outcome, ret,
                results, saved, events, late, merged>>

\* the thread leaves `states`: it raises, or returns the dict
Finish(th, out, tbl) ==
    threads' = [threads EXCEPT ![th].pc = "done", ![th].outcome = out, ![th].ret = tbl]

\* line 165: if not cls._states
ThreadTest(th, d) ==
    /\ threads[th].pc = "test"
    /\ threads' = [threads EXCEPT ![th].pc = IF Shared(d) = <<>> THEN "collect" ELSE "return"]
    /\ UNCHANGED <<_states, ThreadOnly>>

\* lines 166-171: states = right_side + list(cls.transitions.keys())
ThreadCollect(th, d) ==
    /\ threads[th].pc = "collect"
    /\ threads' = [threads EXCEPT ![th].pc = "clear",
                     ![th].states = StatesList(transitions[TransitionsOwner(d)].t)]
    /\ UNCHANGED <<_states, ThreadOnly>>

\* line 172: cls._states = {}
ThreadClear(th, d) ==
    /\ threads[th].pc = "clear"
    /\ _states' = [_states EXCEPT ![d] = Dict(<<>>)]
    /\ threads' = [threads EXCEPT ![th].computed = TRUE, ![th].i = 1,
                     ![th].pc = IF threads[th].states = <<>> THEN "resolve" ELSE "member"]
    /\ UNCHANGED ThreadOnly

\* the loop of line 174 goes to its next turn, or is left
Turn(th) ==
    [threads EXCEPT ![th].i = @ + 1,
                    ![th].pc = IF threads[th].i + 1 > Len(threads[th].states)
                               THEN "resolve" ELSE "member"]

\* lines 175-177: state = State(state); if state.code not in cls._states
ThreadMember(th, d) ==
    /\ threads[th].pc = "member"
    /\ threads' = [threads EXCEPT ![th].pc =
                     IF threads[th].states[threads[th].i].s.code \in TableCodes(Shared(d))
                     THEN "merge" ELSE "insert"]
    /\ UNCHANGED <<_states, ThreadOnly>>

\* line 178: cls._states[state.code] = state
ThreadInsert(th, d) ==
    /\ threads[th].pc = "insert"
    /\ \E state \in {threads[th].states[threads[th].i].s} :
       \E k \in {Index(Shared(d), state.code)} :
          _states' = Store(d, IF k = 0 THEN Append(Shared(d), state)
                                ELSE [Shared(d) EXCEPT ![k] = state])
    /\ threads' = Turn(th)
    /\ UNCHANGED ThreadOnly

\* line 180: cls._states[state.code].merge_data(state)
ThreadMerge(th, d) ==
    /\ threads[th].pc = "merge"
    /\ \E state \in {threads[th].states[threads[th].i].s} :
       \E k \in {Index(Shared(d), state.code)} :
          IF k = 0
          THEN /\ Finish(th, "KeyError", <<>>)
               /\ UNCHANGED _states
          ELSE \E m \in {merge_data(Shared(d)[k], state)} :
               /\ _states' = Store(d, [Shared(d) EXCEPT ![k] = m.s])
               /\ IF m.err # "none" THEN Finish(th, m.err, <<>>) ELSE threads' = Turn(th)
    /\ UNCHANGED ThreadOnly

\* what lines 194-197 have to flag, in the order the loops take them
Flags(attr, codes) == {[k \in 1..Len(o) |-> <<attr, o[k]>>] : o \in Orders(codes)}

\* lines 183-193: the initial and terminal states, marked or deduced
ThreadResolve(th, d) ==
    /\ threads[th].pc = "resolve"
    /\ \E t \in {transitions[TransitionsOwner(d)].t} :
       \E markedI \in {TableCodes(Flagged(Shared(d), "is_initial"))},
          markedT \in {TableCodes(Flagged(Shared(d), "is_terminal"))} :
       \E initials \in {IF markedI = {} THEN deduce_initial_states(t) ELSE markedI},
          terminals \in {IF markedT = {} THEN deduce_terminal_states(t) ELSE markedT} :
          IF Cardinality(initials) # 1
          THEN Finish(th, "ImproperlyConfigured", <<>>)
          ELSE \E fi \in Flags("is_initial", initials), ft \in Flags("is_terminal", terminals) :
                  threads' = [threads EXCEPT ![th].todo = fi \o ft,
                                             ![th].pc = IF fi \o ft = <<>> THEN "return" ELSE "mark"]
    /\ UNCHANGED <<_states, ThreadOnly>>

\* lines 195 and 197: cls._states[state].is_initial = True (is_terminal)
ThreadMark(th, d) ==
    /\ threads[th].pc = "mark"
    /\ \E flag \in {Head(threads[th].todo)} :
       \E k \in {Index(Shared(d), flag[2])} :
          IF k = 0
          THEN /\ Finish(th, "KeyError", <<>>)
               /\ UNCHANGED _states
          ELSE /\ _states' = Store(d, [Shared(d) EXCEPT ![k][flag[1]] = "True"])
               /\ threads' = [threads EXCEPT ![th].todo = Tail(@),
                                ![th].pc = IF Tail(threads[th].todo) = <<>>
                                           THEN "return" ELSE "mark"]
    /\ UNCHANGED ThreadOnly

\* line 199: return cls._states
ThreadReturn(th, d) ==
    /\ threads[th].pc = "return"
    /\ Finish(th, "ok", Shared(d))
    /\ UNCHANGED <<_states, ThreadOnly>>

\* ------------------------------------------------ the state after import
NoInstance == [alive |-> FALSE, cls |-> "StateMachine", current_state_code |-> None]

\* class attributes as the class statements leave them: StateMachine has
\* `_states = None`, `handlers = defaultdict(set)` and `transitions = {}`
InitClassState ==
    /\ declared = transitions
    /\ _states = [d \in Defs |-> IF d = "StateMachine" THEN NoneStates ELSE Absent]
    /\ instances = [i \in Insts |-> NoInstance]
    /\ call = NoCall
    /\ outcome = "none"
    /\ ret = <<>>
    /\ results = <<>>
    /\ saved = FALSE
    /\ events = <<>>
    /\ late = [i \in Insts |-> {}]
    /\ threads = [th \in Threads |-> Idle]
    /\ merged = <<>>

NoHandlers == [d \in Defs |-> [own |-> d = "StateMachine", rules |-> <<>>]]

\* ------------------------------------------- table construction on its own
\* The declarations a mapping may use for one code.
Variants(c) ==
    {Bare(c)}
    \cup {Lit(State(c, l, None, None)) : l \in {"x", "y"}}
    \cup {Lit(State(c, None, f, None)) : f \in {"True", "False"}}
    \cup {Lit(State(c, None, None, "True"))}

Declarations == UNION {Variants(c) : c \in Codes}

Entry1(k, d) == [key |-> k, trans |-> <<[symbol |-> "success", dest |-> d]>>]
Entry2(k, d, e) == [key |-> k, trans |-> <<[symbol |-> "success", dest |-> d],
                                          [symbol |-> "fail", dest |-> e]>>]

\* the mappings of at most two keys and at most two transitions under a key
TableFamily ==
    {<<>>}
    \cup {<<Entry1(k, d)>> : k \in Declarations, d \in Declarations}
    \cup {<<Entry2(k, d, e)>> : k \in Declarations, d \in Declarations, e \in Declarations}
    \cup {<<Entry1(k[1], d[1]), Entry1(k[2], d[2])>> :
            k \in {x \in Declarations \X Declarations : x[1].s.code # x[2].s.code},
            d \in Declarations \X Declarations}

InitTable ==
    /\ \E t \in TableFamily :
         transitions = [d \in Defs |->
            CASE d = "StateMachine" -> [own |-> TRUE, t |-> <<>>]
              [] d = "P" -> [own |-> TRUE, t |-> t]
              [] OTHER -> [own |-> FALSE, t |-> <<>>]]
    /\ InitClassState
    /\ handlers = NoHandlers

NextTable ==
    \/ AccessStates("P")
    \/ get_initial_state("P")
    \/ get_terminals("P")

SpecTable == InitTable /\ [][NextTable]_vars

\* ------------------------------------------------- engine and handlers
\* The mappings of src/tests.py: SMSuper (and TestStateMachine2) and
\* TestStateMachine.
SMSuper ==
    <<[key |-> Lit(State("0", "initial", None, None)),
       trans |-> <<[symbol |-> "success", dest |-> Bare("1")]>>]>>

TestStateMachine ==
    <<[key |-> Lit(State("0", "initial", None, None)),
       trans |-> <<[symbol |-> "success", dest |-> Lit(State("1", "label1", None, None))],
                   [symbol |-> "fail", dest |-> Bare("2")]>>],
      [key |-> Bare("1"),
       trans |-> <<[symbol |-> None, dest |-> Bare("2")]>>]>>

Inherited == [own |-> FALSE, t |-> <<>>]
Own(t) == [own |-> TRUE, t |-> t]

\* P has the mapping of SMSuper, D2 the one of TestStateMachine; S either
\* inherits P's mapping (`class SMSub(SMSuper): pass`) or overrides it
Configured(s) ==
    [d \in Defs |->
        CASE d = "StateMachine" -> Own(<<>>)
          [] d = "P" -> Own(SMSuper)
          [] d = "S" -> s
          [] d = "D2" -> Own(TestStateMachine)]

\* registrations made at import time: a handler for every transition of P
\* (and so of S) and of D2
Subscribed ==
    [d \in Defs |->
        IF d \in {"P", "D2"}
        THEN [own |-> TRUE, rules |-> <<[rule |-> <<ANY, ANY, ANY>>, hs |-> {"h1"}]>>]
        ELSE NoHandlers[d]]

Machines == {"P", "S", "D2"}

Init ==
    /\ transitions \in {Configured(Inherited), Configured(Own(TestStateMachine))}
    /\ InitClassState
    /\ handlers \in {NoHandlers, Subscribed}

Next ==
    \/ \E d \in Machines : AccessStates(d)
    \/ \E i \in Insts, d \in Machines : New(i, d)
    \/ \E i \in Insts, d \in Machines, code \in Codes : Load(i, d, code)
    \/ \E i \in Insts, symbol \in Symbols : transition(i, symbol)

Spec == Init /\ [][Next]_vars

InitHandlers ==
    /\ transitions = Configured(Inherited)
    /\ InitClassState
    /\ handlers = NoHandlers

NextHandlers ==
    \/ \E d \in Machines, rule \in Rules, h \in Handlers : handle(d, rule, h)
    \/ \E i \in Insts, d \in Machines : New(i, d)
    \/ \E i \in Insts, symbol \in Symbols : transition(i, symbol)

SpecHandlers == InitHandlers /\ [][NextHandlers]_vars

\* Instances of a definition whose mapping marks states by hand.
MarkedVariants(c) ==
    {Bare(c), Lit(State(c, None, "True", None)), Lit(State(c, None, None, "True"))}

MarkedDeclarations == UNION {MarkedVariants(c) : c \in Codes}

\* the mappings of one or two keys with one transition each
MarkedFamily ==
    {<<Entry1(k, d)>> : k \in MarkedDeclarations, d \in MarkedDeclarations}
    \cup {<<Entry1(k[1], d[1]), Entry1(k[2], d[2])>> :
            k \in {x \in MarkedDeclarations \X MarkedDeclarations : x[1].s.code # x[2].s.code},
            d \in MarkedDeclarations \X MarkedDeclarations}

InitMarked ==
    /\ \E t \in MarkedFamily :
          transitions = [Configured(Inherited) EXCEPT !["P"] = Own(t)]
    /\ InitClassState
    /\ handlers = NoHandlers

NextMarked ==
    \/ \E i \in Insts : New(i, "P")
    \/ \E i \in Insts, symbol \in Symbols : transition(i, symbol)

SpecMarked == InitMarked /\ [][NextMarked]_vars

\* Threads that access P.states for the first time at once.
\* a mapping with every state spelled as a bare code
Plain(t) ==
    [i \in 1..Len(t) |->
        [key |-> Bare(t[i].key.s.code),
         trans |-> [j \in 1..Len(t[i].trans) |->
                      [symbol |-> t[i].trans[j].symbol,
                       dest |-> Bare(t[i].trans[j].dest.s.code)]]]]

InitThreads ==
    /\ \E t \in {Plain(SMSuper), Plain(TestStateMachine)} :
          transitions = [Configured(Inherited) EXCEPT !["P"] = Own(t)]
    /\ InitClassState
    /\ handlers = NoHandlers

NextThreads ==
    \E th \in Threads :
       \/ ThreadTest(th, "P")
       \/ ThreadCollect(th, "P")
       \/ ThreadClear(th, "P")
       \/ ThreadMember(th, "P")
       \/ ThreadInsert(th, "P")
       \/ ThreadMerge(th, "P")
       \/ ThreadResolve(th, "P")
       \/ ThreadMark(th, "P")
       \/ ThreadReturn(th, "P")

SpecThreads == InitThreads /\ [][NextThreads]_vars

\* ============================================================== claims
\* What a mapping declares, read off the mapping alone.
Decls(t) == {StatesList(t)[p] : p \in 1..Len(StatesList(t))}
DeclaredCodes(t) == {x.s.code : x \in Decls(t)}
DeclaredValues(t, code, attr) ==
    {x.s[attr] : x \in {y \in Decls(t) : y.s.code = code}} \ {None}
Conflicting(t) ==
    \E code \in DeclaredCodes(t), k \in 1..Len(Attrs) :
        Cardinality(DeclaredValues(t, code, Attrs[k])) > 1
TheValue(V) == IF V = {} THEN None ELSE CHOOSE v \in V : TRUE
IsKey(t, code) == \E i \in 1..Len(t) : t[i].key.s.code = code
IsDest(t, code) ==
    \E i \in 1..Len(t) : \E j \in 1..Len(t[i].trans) : t[i].trans[j].dest.s.code = code
SourceOnly(t) == {c \in DeclaredCodes(t) : IsKey(t, c) /\ ~IsDest(t, c)}
DestOnly(t) == {c \in DeclaredCodes(t) : IsDest(t, c) /\ ~IsKey(t, c)}
MarkedInitial(t) == {c \in DeclaredCodes(t) : "True" \in DeclaredValues(t, c, "is_initial")}
NoMarkers(t) ==
    \A x \in Decls(t) : x.s.is_initial = None /\ x.s.is_terminal = None
Unresolvable(t) ==
    \/ Conflicting(t)
    \/ Cardinality(IF MarkedInitial(t) = {} THEN SourceOnly(t) ELSE MarkedInitial(t)) # 1
CodesWith(tbl, attr) == {tbl[k].code : k \in {j \in 1..Len(tbl) : tbl[j][attr] = "True"}}
TableOps == {"states", "get_initial_state", "get_terminals"}

\* C4 (as stated): for a mapping that cannot be resolved every access to
\* `states` or get_initial_state() raises ImproperlyConfigured, the first
\* and every later one, and a table that `states` returns has exactly one
\* state flagged initial.
C4_EveryAccessRaises ==
    /\ (call.op \in TableOps /\ Unresolvable(declared[TransitionsOwner(call.def)].t))
          => outcome = "ImproperlyConfigured"
    /\ (call.op = "states" /\ outcome = "ok")
          => Cardinality(CodesWith(ret, "is_initial")) = 1

\* C5: for a mapping without is_initial / is_terminal markers (and without
\* conflicting labels) in which exactly one code A is a key and never a
\* destination, the table is built, flags A and only A initial and flags
\* terminal exactly the codes that are destinations and never keys;
\* get_initial_state() returns A's state and get_terminals() exactly the
\* states of those codes.
C5_DeducedInitialAndTerminals ==
    LET t == declared["P"].t
        tbl == _states["P"].tbl
    IN (/\ call.op \in TableOps /\ call.def = "P"
        /\ NoMarkers(t) /\ ~Conflicting(t) /\ Cardinality(SourceOnly(t)) = 1)
       => /\ outcome = "ok"
          /\ CodesWith(tbl, "is_initial") = SourceOnly(t)
          /\ CodesWith(tbl, "is_terminal") = DestOnly(t)
          /\ call.op = "states" => ret = tbl
          /\ call.op = "get_initial_state"
                => Len(ret) = 1 /\ SourceOnly(t) = {ret[1].code} /\ ret[1].is_initial = "True"
          /\ call.op = "get_terminals"
                => /\ {ret[k].code : k \in 1..Len(ret)} = DestOnly(t)
                   /\ Len(ret) = Cardinality(DestOnly(t))
                   /\ \A k \in 1..Len(ret) : ret[k] = tbl[Index(tbl, ret[k].code)]

\* C5 witness: get_terminals() has returned the one destination-only state
\* of such a mapping whose other state was deduced initial.
C5_Witness ==
    LET t == declared["P"].t
    IN /\ call.op = "get_terminals" /\ call.def = "P" /\ outcome = "ok"
       /\ NoMarkers(t) /\ ~Conflicting(t) /\ Cardinality(SourceOnly(t)) = 1
       /\ Len(ret) = 1 /\ DestOnly(t) = {ret[1].code}
       /\ CodesWith(_states["P"].tbl, "is_initial") = SourceOnly(t)

\* C6: the merge loop of a build leaves one State per declared code that
\* carries, for label, is_initial and is_terminal, the one non-None value
\* declared for the code anywhere in the mapping (None if there is none),
\* whether the declaration is a key or a destination and wherever it
\* stands; if two declarations of a code give different non-None values,
\* the build raises ImproperlyConfigured.
C6_MergedDeclarations ==
    LET t == declared["P"].t
    IN (call.built /\ call.def = "P")
       => /\ Conflicting(t) => outcome = "ImproperlyConfigured"
          /\ ~Conflicting(t)
                => /\ TableCodes(merged) = DeclaredCodes(t)
                   /\ Len(merged) = Cardinality(DeclaredCodes(t))
                   /\ \A k \in 1..Len(merged), a \in 1..Len(Attrs) :
                         merged[k][Attrs[a]] =
                            TheValue(DeclaredValues(t, merged[k].code, Attrs[a]))

\* C6 witness: a build has merged a code whose first declaration is bare
\* and whose label and flag come from two later declarations.
C6_Witness ==
    LET t == declared["P"].t
        l == StatesList(t)
    IN /\ call.built /\ call.def = "P" /\ ~Conflicting(t) /\ Len(l) = 4
       /\ \E c \in Codes :
             /\ l[1] = Bare(c)
             /\ \E p, q \in 2..4 : /\ l[p].s.code = c /\ l[p].s.label = "x"
                                   /\ l[q].s.code = c /\ l[q].s.is_terminal = "True"
             /\ merged[Index(merged, c)] = State(c, "x", None, "True")

\* What a mapping defines for a state code and a symbol.
Defined(t, code, symbol) ==
    \E i \in 1..Len(t) : /\ t[i].key.s.code = code
                         /\ \E j \in 1..Len(t[i].trans) : t[i].trans[j].symbol = symbol
DestCode(t, code, symbol) ==
    LET i == CHOOSE i \in 1..Len(t) : t[i].key.s.code = code
        j == CHOOSE j \in 1..Len(t[i].trans) : t[i].trans[j].symbol = symbol
    IN t[i].trans[j].dest.s.code
\* the mapping of the definition the last call was made on, as declared
CallMapping == declared[TransitionsOwner(call.def)].t
CodeNow == instances[call.inst].current_state_code

\* C1 (as stated): whenever the mapping of the instance's definition
\* defines transitions[s][y] = d for the current state s and the guard
\* does not refuse, transition(y) does not raise IllegalTransition and
\* leaves current_state_code at the code of d.
C1_FollowsTheMapping ==
    (/\ call.op = "transition"
     /\ Defined(CallMapping, call.from, call.symbol)
     /\ call.guard # "False")
    => /\ outcome # "IllegalTransition"
       /\ CodeNow = DestCode(CallMapping, call.from, call.symbol)

\* C2: transition(y) with no entry for y under the current state, or with
\* a current state code that is no key of the mapping at all, raises
\* IllegalTransition, leaves current_state_code as it was, does not invoke
\* save() and invokes no handler.
C2_UndefinedIsIllegal ==
    (call.op = "transition" /\ ~Defined(CallMapping, call.from, call.symbol))
    => /\ outcome = "IllegalTransition"
       /\ CodeNow = call.from
       /\ ~saved
       /\ results = <<>>

\* C2 witness: an instance in a state that is a key of its mapping was sent
\* a symbol the mapping lacks under that state, while a handler for every
\* transition of its definition is registered.
C2_Witness ==
    /\ call.op = "transition" /\ outcome = "IllegalTransition"
    /\ ~Defined(CallMapping, call.from, call.symbol)
    /\ IsKey(CallMapping, call.from)
    /\ CodeNow = call.from
    /\ get_handlers(call.def) # <<>>

\* C3: when the lookup finds a destination and the guard answers false,
\* transition raises IllegalTransition, current_state_code is unchanged,
\* save() is not invoked and no handler is invoked; the default guard never
\* answers false, so under it a destination the lookup found is never
\* refused.
C3_GuardVeto ==
    call.op = "transition"
    => /\ call.guard = "False"
          => /\ outcome = "IllegalTransition"
             /\ CodeNow = call.from
             /\ ~saved
             /\ results = <<>>
       /\ call.def \notin GuardOverridden
          => /\ call.guard # "False"
             /\ call.guard = "True" => outcome # "IllegalTransition"

\* C3 witness: the guard refused a transition the mapping defines, with a
\* handler registered that matches it.
C3_Witness ==
    /\ call.op = "transition" /\ call.guard = "False"
    /\ Defined(CallMapping, call.from, call.symbol)
    /\ outcome = "IllegalTransition"
    /\ get_handlers(call.def) # <<>>

\* The last call, when it was a transition that went through.
Transitioned == call.op = "transition" /\ outcome = "ok"
ToCode == DestCode(CallMapping, call.from, call.symbol)
\* a rule fits the last transition: each matcher is ANY or the actual value
Fits(rule) ==
    /\ rule[1] \in {ANY, call.from}
    /\ rule[2] \in {ANY, call.symbol}
    /\ rule[3] \in {ANY, ToCode}
Entries(rules) == {rules[k] : k \in 1..Len(rules)}
Count(h) == Cardinality({k \in 1..Len(results) : results[k].handler = h})
Invoked == {results[k].handler : k \in 1..Len(results)}
\* the handlers registered on definition d itself
RegisteredOn(d) == UNION {e.hs : e \in Entries(handlers[d].rules)}

\* C7: on a successful transition (from, symbol, to) a handler is invoked
\* once for every rule of the effective registry it is registered under
\* whose three matchers each are ANY or equal the actual value, and for no
\* other rule: a rule on from_state "0" fires only for transitions leaving
\* "0", a rule on the symbol None only for the symbol None.
C7_InvokedIffRuleMatches ==
    Transitioned
    => \A h \in Handlers :
          Count(h) = Cardinality({e \in Entries(get_handlers(call.def)) :
                                     Fits(e.rule) /\ h \in e.hs})

\* C7 witness: with one handler registered for from_state "0" and another
\* for the symbol None, a transition left "0" on another symbol: the first
\* handler ran once, the second not at all.
C7_Witness ==
    /\ Transitioned /\ call.from = "0" /\ call.symbol = "success"
    /\ \E e \in Entries(get_handlers(call.def)) : e.rule = <<"0", ANY, ANY>> /\ e.hs = {"h1"}
    /\ \E e \in Entries(get_handlers(call.def)) : e.rule = <<ANY, None, ANY>> /\ e.hs = {"h2"}
    /\ Count("h1") = 1 /\ Count("h2") = 0

\* C8: registrations on a definition leave the registry of the base class
\* StateMachine empty, and a transition of an instance invokes only
\* handlers registered on the instance's own definition or its ancestors:
\* an instance of D2 never runs a handler registered on P or S only.
C8_RegistrationsAreScoped ==
    /\ handlers["StateMachine"] = [own |-> TRUE, rules |-> <<>>]
    /\ call.op = "transition"
          => Invoked \subseteq UNION {RegisteredOn(MRO(call.def)[k]) :
                                         k \in 1..Len(MRO(call.def))}

\* C8 witness: P holds a handler for transitions leaving "0", D2 holds
\* none, and an instance of D2 left "0": nothing was invoked.
C8_Witness ==
    /\ Transitioned /\ call.def = "D2" /\ call.from = "0"
    /\ \E e \in Entries(handlers["P"].rules) : e.rule = <<"0", ANY, ANY>>
    /\ handlers["D2"].rules = <<>>
    /\ handlers["StateMachine"].rules = <<>>
    /\ results = <<>>

\* C9: while S has registered nothing, a transition of an S instance
\* invokes every handler P holds under a rule that fits it; a transition
\* of a P instance never invokes a handler registered on S and not on P.
C9_SubclassInheritsHandlers ==
    /\ (Transitioned /\ call.def = "S" /\ ~handlers["S"].own)
          => \A e \in Entries(handlers["P"].rules) : Fits(e.rule) => e.hs \subseteq Invoked
    /\ (call.op = "transition" /\ call.def = "P")
          => Invoked \cap (RegisteredOn("S") \ RegisteredOn("P")) = {}

\* C9 witness: S has no registration, P holds h1 for transitions leaving
\* "0", and an S instance left "0": h1 ran.
C9_Witness ==
    /\ Transitioned /\ call.def = "S" /\ ~handlers["S"].own
    /\ \E e \in Entries(handlers["P"].rules) : e.rule = <<"0", ANY, ANY>> /\ "h1" \in e.hs
    /\ Count("h1") = 1

\* C10 (as stated): a transition of an S instance invokes the handlers of
\* every fitting rule registered on S and of every fitting rule registered
\* on its parent P, whatever the order of the registrations, and a
\* registration on S leaves P's own registry as it was.
C10_UnionOfOwnAndAncestors ==
    [][/\ (Transitioned /\ call.def = "S"
             => \A d \in {"S", "P"} : \A e \in Entries(handlers[d].rules) :
                   Fits(e.rule) => e.hs \subseteq Invoked)'
       /\ (call'.op = "handle" /\ call'.def = "S") => handlers'["P"] = handlers["P"]]_vars

\* The commit hook save() of the last call returned normally.
CommitReturned == \E k \in 1..Len(events) : events[k].ev = "save" /\ events[k].by = "ok"
\* the (rule, handler) pairs of the effective registry that fit the last
\* transition
FittingPairs ==
    {p \in Entries(get_handlers(call.def)) \X Handlers : Fits(p[1].rule) /\ p[2] \in p[1].hs}

\* C11: once the commit hook of a transition has returned, the dispatch
\* runs to its end whatever the handlers do: transition() returns normally
\* with current_state_code at the destination, the list it returns has one
\* entry per handler of every fitting rule, and the entry of a handler that
\* raised carries the exception, the entry of any other its return value.
C11_RaisingHandlerIsContained ==
    (call.op = "transition" /\ CommitReturned)
    => /\ outcome = "ok"
       /\ CodeNow = ToCode
       /\ Len(results) = Cardinality(FittingPairs)
       /\ \A p \in FittingPairs : p[2] \in Invoked
       /\ \A k \in 1..Len(results) :
             results[k].outcome = IF Raises(results[k].handler) THEN "raised" ELSE "returned"

\* C11 witness: the raising handler h2 was called first and h1, registered
\* under a fitting rule as well, was still called after it.
C11_Witness ==
    /\ Transitioned /\ CodeNow = ToCode
    /\ \E k, j \in 1..Len(results) :
          /\ k < j
          /\ results[k] = [handler |-> "h2", outcome |-> "raised"]
          /\ results[j] = [handler |-> "h1", outcome |-> "returned"]

\* The commit hook save() of the last call raised.
CommitFailed == \E k \in 1..Len(events) : events[k].ev = "save" /\ events[k].by # "ok"

\* C12: when save() raises during a transition the mapping defines and the
\* guard allowed, the exception leaves transition(), current_state_code
\* is the destination's code and stays so, and no handler is called.
C12_CommitFailureKeepsTheMove ==
    (call.op = "transition" /\ CommitFailed)
    => /\ outcome = "Exception"
       /\ CodeNow = ToCode
       /\ events[Len(events)].ev = "save"
       /\ results = <<>>
       /\ \A k \in 1..Len(events) : events[k].ev # "handler"

\* C12 witness: save() failed on a transition that changed the state code
\* of an instance whose definition holds a handler for every transition.
C12_Witness ==
    /\ call.op = "transition" /\ CommitFailed /\ outcome = "Exception"
    /\ CodeNow = ToCode /\ CodeNow # call.from
    /\ \E e \in Entries(get_handlers(call.def)) : Fits(e.rule) /\ e.hs # {}
    /\ results = <<>>

\* The state table the definition of the last call sees.
CallTable == _states[StatesOwner(call.def)].tbl

\* C13 (as stated): whenever the guard is called, the to_state it is given
\* is a State object that carries the label and the flags the table holds
\* for the destination's code, also when the mapping spells the
\* destination as a bare code.
C13_GuardReceivesTableStates ==
    (call.op = "transition" /\ call.guard # "not called")
    => /\ call.to[1].lit
       /\ call.to[1].s = CallTable[Index(CallTable, call.to[1].s.code)]

\* C14: a transition that goes through does, in this order, one assignment
\* of the destination's code to current_state_code, one call of save(),
\* and then the handler calls, one per entry of the returned list; save()
\* and every handler see the instance with the destination's code.
C14_AssignCommitDispatch ==
    Transitioned
    => /\ Len(events) = 2 + Len(results)
       /\ events[1] = Assigned(ToCode)
       /\ events[2] = Committed(ToCode, "ok")
       /\ \A k \in 1..Len(results) :
             events[2 + k] = [ev |-> "handler", code |-> ToCode, by |-> results[k].handler]
       /\ CodeNow = ToCode

\* C14 witness: a transition that changed the state code was committed
\* and then notified a handler.
C14_Witness ==
    /\ Transitioned /\ call.from # ToCode
    /\ Len(events) = 3
    /\ events[1].ev = "assign" /\ events[2].ev = "save" /\ events[3].ev = "handler"
    /\ events[3].code = ToCode

\* the definitions an instance of d looks attributes up in
Ancestry(d) == {MRO(d)[k] : k \in 1..Len(MRO(d))}

\* C15 (as stated): a handler registered on the definition of an instance
\* or on an ancestor of it after the instance was created is invoked by
\* every later transition of that instance its rule fits, whatever else
\* the definition and its ancestors have registered.
C15_LateRegistrationsAreSeen ==
    Transitioned
    => \A reg \in late[call.inst] :
          (reg[1] \in Ancestry(call.def) /\ Fits(reg[2])) => reg[3] \in Invoked

\* C16 (as stated): an access to D.states that returns hands out the
\* table derived from the mapping D itself uses, whichever definition was
\* accessed first, and once D holds a table later accesses return that
\* table and build nothing.
C16_TablePerDefinition ==
    [][(call'.op = "states" /\ outcome' = "ok")
          => /\ ret' = BuildStates(declared[TransitionsOwner(call'.def)].t).tbl
             /\ _states[call'.def].tbl # <<>>
                   => ~call'.built /\ ret' = _states[call'.def].tbl]_vars

\* the table a build of P's mapping that nothing disturbs arrives at
Complete == Entries(BuildStates(declared["P"].t).tbl)

\* C17 (as stated): of the threads that access P.states at once at most
\* one computes the table, and a thread that `states` returns to gets the
\* whole table: every state of the mapping, with the initial and the
\* terminal states flagged.
C17_SingleFlight ==
    /\ Cardinality({th \in Threads : threads[th].computed}) <= 1
    /\ \A th \in Threads :
          threads[th].outcome = "ok" => Entries(threads[th].ret) = Complete

MarkedTerminal(t) == {c \in DeclaredCodes(t) : "True" \in DeclaredValues(t, c, "is_terminal")}

\* C18: in the table of a mapping that can be resolved, the states flagged
\* initial are the ones the mapping marks is_initial when it marks any,
\* and the source-only codes otherwise; the states flagged terminal, which
\* get_terminals() returns, are the ones the mapping marks is_terminal
\* when it marks any, and the destination-only codes otherwise.
C18_MarkersBeforeDeduction ==
    LET t == declared["P"].t
        tbl == _states["P"].tbl
    IN (call.op \in TableOps /\ call.def = "P" /\ ~Unresolvable(t))
       => /\ outcome = "ok"
          /\ CodesWith(tbl, "is_initial") =
                IF MarkedInitial(t) # {} THEN MarkedInitial(t) ELSE SourceOnly(t)
          /\ CodesWith(tbl, "is_terminal") =
                IF MarkedTerminal(t) # {} THEN MarkedTerminal(t) ELSE DestOnly(t)
          /\ call.op = "get_terminals"
                => /\ TableCodes(ret) = CodesWith(tbl, "is_terminal")
                   /\ Len(ret) = Cardinality(TableCodes(ret))

\* C18 witness: get_terminals() of a mapping that marks one state initial
\* and one terminal while another code is source-only and a third
\* destination-only: only the marked states are flagged.
C18_Witness ==
    LET t == declared["P"].t
    IN /\ call.op = "get_terminals" /\ call.def = "P" /\ outcome = "ok"
       /\ MarkedInitial(t) # {} /\ SourceOnly(t) \ MarkedInitial(t) # {}
       /\ MarkedTerminal(t) # {} /\ DestOnly(t) \ MarkedTerminal(t) # {}
       /\ TableCodes(ret) = MarkedTerminal(t)
       /\ CodesWith(_states["P"].tbl, "is_initial") = MarkedInitial(t)

\* C19 (as stated): transition(symbol) of an instance whose current state
\* the table flags is_terminal, by a marker or by deduction, raises
\* IllegalTransition and leaves current_state_code as it was.
C19_TerminalsAbsorb ==
    (/\ call.op = "transition"
     /\ call.from \in CodesWith(CallTable, "is_terminal"))
    => /\ outcome = "IllegalTransition"
       /\ CodeNow = call.from

\* C20 (as stated): an instance created with no code set starts at the one
\* state its table flags initial; after every transition call, whether it
\* went through or raised, current_state_code is a code of the table of
\* the instance's definition, and it differs from the code before the
\* call only if the call assigned the destination.
C20_CodeStaysInTheTable ==
    [][/\ (call'.op = "new" /\ outcome' = "ok")
             => (CodesWith(CallTable, "is_initial") = {CodeNow})'
       /\ call'.op = "transition"
             => /\ (CodeNow \in TableCodes(CallTable))'
                /\ CodeNow' # call'.from
                      => \E k \in 1..Len(events') : events'[k] = Assigned(CodeNow')]_vars

====
